---- MODULE Spec2Model ----
(***************************************************************************)
(* Model of src/matrix/analyze_hotspots.py: the gprof flat-profile parser  *)
(* (parse_gprof_file), the threshold filter (analyze_hotspots), the        *)
(* rule-based classifier (generate_parallelization_recommendations) and    *)
(* the rollup loop of main.                                                *)
(*                                                                         *)
(* Conventions.                                                            *)
(*  - Python str values are TLA+ strings; substring tests, lower() and     *)
(*    float() are computed character by character.                         *)
(*  - A float is modelled by its value in hundredths (an integer): the     *)
(*    texts of the model hold decimal literals with at most two fraction   *)
(*    digits, as gprof prints them.  The float specials "nan"/"inf" and    *)
(*    exponent forms are outside the vocabulary of the model.              *)
(*  - A line of text is [indent, toks]: whether it starts with white       *)
(*    space, and its white-space separated tokens (line.strip().split()).  *)
(*  - A Python value returned by parse_gprof_file is [py, items, exc]:     *)
(*    py = "None", "list" (items) or "raise" (exc, an uncaught exception). *)
(***************************************************************************)
EXTENDS Integers, Sequences, FiniteSets, TLC

VARIABLES
    pc,                   \* position of the running entry point
    source,               \* the file behind the path: [state, content]
    functions,            \* main: functions = parse_gprof_file(filename)
    hotspots,             \* main: hotspots = analyze_hotspots(functions, ...)
    threshold,            \* the threshold argument of analyze_hotspots
    idx,                  \* main: number of hotspots the for loop has processed
    total_hotspot_time,   \* main, line 242
    parallelizable_time,  \* main, line 243
    efficiency,           \* main, lines 268-271, as a fraction [num, den]
    tier,                 \* main, lines 279-286: the label printed
    function_name,        \* argument of generate_parallelization_recommendations
    rec                   \* the verdict it returned

vars == << pc, source, functions, hotspots, threshold, idx, total_hotspot_time,
           parallelizable_time, efficiency, tier, function_name, rec >>

-----------------------------------------------------------------------------
(* Bounds of the model *)

\* lines of the table body drawn freely in a report text
MaxRows == 3
\* fragments concatenated into a function name handed to the classifier
MaxFrags == 2
\* records in a list handed directly to analyze_hotspots
MaxRecs == 3

-----------------------------------------------------------------------------
(* str operations *)

Min(S) == CHOOSE x \in S : \A y \in S : x <= y

CharAt(s, k) == SubSeq(s, k, k)

UpperChars == "ABCDEFGHIJKLMNOPQRSTUVWXYZ"
LowerChars == "abcdefghijklmnopqrstuvwxyz"

\* the upper-case letters, each with its lower-case form
LowerOf ==
    [ c \in { CharAt(UpperChars, k) : k \in 1..Len(UpperChars) } |->
        CharAt(LowerChars, Min({ k \in 1..Len(UpperChars) : CharAt(UpperChars, k) = c })) ]

\* str.lower() of one character
LowerChar(c) == IF c \in DOMAIN LowerOf THEN LowerOf[c] ELSE c

RECURSIVE LowerFrom(_, _)
LowerFrom(s, k) ==
    IF k > Len(s) THEN "" ELSE LowerChar(CharAt(s, k)) \o LowerFrom(s, k + 1)

\* s.lower()
Lower(s) == LowerFrom(s, 1)

\* sub in s
Contains(sub, s) ==
    \E k \in 1..(Len(s) - Len(sub) + 1) : SubSeq(s, k, k + Len(sub) - 1) = sub

\* s.startswith(prefix)
StartsWith(s, prefix) ==
    Len(s) >= Len(prefix) /\ SubSeq(s, 1, Len(prefix)) = prefix

-----------------------------------------------------------------------------
(* generate_parallelization_recommendations *)

\* a plausible slip: the entries of the dict put in alphabetical order
CatalogueKeys_Alphabetical ==
    << "blocked_matrix_multiply", "calculate_checksum", "data_postprocessing",
       "data_preprocessing", "initialize_data", "matrix_multiply",
       "matrix_vector_multiply", "vector_operations" >>

\* the keys of the recommendations dict, in insertion (= iteration) order
CatalogueKeys ==
    << "matrix_multiply", "blocked_matrix_multiply", "matrix_vector_multiply",
       "data_preprocessing", "data_postprocessing", "vector_operations",
       "initialize_data", "calculate_checksum" >>

Verdict(par, cx, pat, plat, strat, just) ==
    [ parallelizable |-> par, complexity |-> cx, pattern |-> pat,
      platforms |-> plat, strategy |-> strat, justification |-> just ]

\* the tri-state of 'parallelizable': True, False, None
PyTrue == "True"
PyFalse == "False"
PyNone == "None"

\* recommendations[key]; "O(n^3)" and "O(n^2)" stand for the superscript forms
recommendations(key) ==
    CASE key = "matrix_multiply" ->
           Verdict(PyTrue, "O(n^3)",
                   "Triple nested loops with independent (i,j) iterations",
                   << "OpenMP", "CUDA" >>,
                   "Block decomposition, GPU thread blocks for (i,j) pairs",
                   "Highly parallel, regular memory access, compute-intensive, no dependencies between result elements")
      [] key = "blocked_matrix_multiply" ->
           Verdict(PyTrue, "O(n^3)",
                   "Cache-blocked nested loops with independent blocks",
                   << "OpenMP" >>,
                   "Parallel execution of independent blocks using OpenMP collapse directive",
                   "Cache-friendly algorithm excellent for CPU parallelization, maintains locality")
      [] key = "matrix_vector_multiply" ->
           Verdict(PyTrue, "O(n^2)",
                   "Matrix rows processed independently",
                   << "OpenMP", "CUDA" >>,
                   "Parallel loop over rows, or GPU threads per output element",
                   "Independent row computations, good memory locality, moderate parallelism")
      [] key = "data_preprocessing" ->
           Verdict(PyTrue, "O(n)",
                   "Independent element-wise mathematical operations",
                   << "OpenMP" >>,
                   "SIMD vectorization with parallel for directive",
                   "Element-wise operations (sin, cos, sqrt), no dependencies, SIMD-friendly")
      [] key = "data_postprocessing" ->
           Verdict(PyFalse, "O(n)",
                   "Sequential dependencies between array elements",
                   << "Sequential only" >>,
                   "Limited parallelization due to dependency chain",
                   "Each element depends on previous element (data[i] += data[i-1] * 0.05)")
      [] key = "vector_operations" ->
           Verdict(PyTrue, "O(n)",
                   "Element-wise vector computations",
                   << "OpenMP", "CUDA" >>,
                   "SIMD vectorization or GPU kernel launch",
                   "Embarrassingly parallel, high arithmetic intensity with sqrt, sin, cos operations")
      [] key = "initialize_data" ->
           Verdict(PyTrue, "O(n^2)",
                   "Independent matrix element initialization",
                   << "OpenMP" >>,
                   "Parallel nested loops for matrix initialization",
                   "Independent computations with trigonometric functions per element")
      [] key = "calculate_checksum" ->
           Verdict(PyTrue, "O(n^2)",
                   "Reduction operation over matrix elements",
                   << "OpenMP" >>,
                   "Parallel reduction with OpenMP reduction clause",
                   "Associative sum operation, perfect for parallel reduction")

\* the dict returned when nothing matches (lines 176-183)
UnknownVerdict ==
    Verdict(PyNone, "Unknown", "Requires manual analysis",
            << "Manual analysis needed" >>,
            "Profile function behavior and analyze dependencies",
            "Function characteristics need detailed examination")

\* a plausible slip: the containment test of line 158 written the other way round
CatalogueHits_Reversed(name) ==
    LET l == Lower(name)
    IN  { k \in 1..Len(CatalogueKeys) : Contains(l, CatalogueKeys[k]) }

\* a plausible slip: the name compared without lower()
CatalogueHits_CaseSensitive(name) ==
    { k \in 1..Len(CatalogueKeys) : Contains(CatalogueKeys[k], name) }

\* the keys the test of line 158 finds in the name
CatalogueHits(name) ==
    LET l == Lower(name)
    IN  { k \in 1..Len(CatalogueKeys) : Contains(CatalogueKeys[k], l) }

\* a plausible slip: the loop keeps going and the last matching key wins
FirstHit_LastWins(hits) == CHOOSE x \in hits : \A y \in hits : y <= x

\* the loop of lines 157-159 returns at the first key, in dict order, that matches
FirstHit(hits) == Min(hits)

\* the elif chain of lines 161-174
Heuristic(name) ==
    LET l == Lower(name)
    IN  IF Contains("multiply", l) \/ Contains("matmul", l)
          THEN recommendations("matrix_multiply")
        ELSE IF Contains("vector", l) /\ Contains("multiply", l)
          THEN recommendations("matrix_vector_multiply")
        ELSE IF Contains("preprocess", l)
          THEN recommendations("data_preprocessing")
        ELSE IF Contains("postprocess", l)
          THEN recommendations("data_postprocessing")
        ELSE IF Contains("vector", l)
          THEN recommendations("vector_operations")
        ELSE IF Contains("init", l)
          THEN recommendations("initialize_data")
        ELSE IF Contains("sum", l) \/ Contains("checksum", l)
          THEN recommendations("calculate_checksum")
        ELSE UnknownVerdict

generate_parallelization_recommendations(name) ==
    LET hits == CatalogueHits(name)
    IN  IF hits # {}
          THEN recommendations(CatalogueKeys[FirstHit(hits)])
          ELSE Heuristic(name)

-----------------------------------------------------------------------------
(* float(token), for decimal literals *)

Digits == "0123456789"

DigitOf ==
    [ c \in { CharAt(Digits, k) : k \in 1..Len(Digits) } |->
        Min({ k \in 1..Len(Digits) : CharAt(Digits, k) = c }) - 1 ]

IsDigit(c) == c \in DOMAIN DigitOf

DigitVal(c) == DigitOf[c]

AllDigits(s) == \A k \in 1..Len(s) : IsDigit(CharAt(s, k))

RECURSIVE IntVal(_)
IntVal(s) ==
    IF s = "" THEN 0
    ELSE 10 * IntVal(SubSeq(s, 1, Len(s) - 1)) + DigitVal(CharAt(s, Len(s)))

\* float(s): [ok, v]; ok = FALSE is the ValueError float() raises, v the value
\* in hundredths.  Literals: [+-] digits [. digits], at most two fraction digits.
Float(s) ==
    LET signed == Len(s) > 0 /\ CharAt(s, 1) \in { "-", "+" }
        body   == IF signed THEN SubSeq(s, 2, Len(s)) ELSE s
        dots   == { k \in 1..Len(body) : CharAt(body, k) = "." }
        ip     == IF dots = {} THEN body ELSE SubSeq(body, 1, Min(dots) - 1)
        fp     == IF dots = {} THEN "" ELSE SubSeq(body, Min(dots) + 1, Len(body))
        ok     == /\ Cardinality(dots) <= 1
                  /\ AllDigits(ip) /\ AllDigits(fp)
                  /\ Len(ip) + Len(fp) >= 1
                  /\ Len(fp) <= 2
        mag    == 100 * IntVal(ip)
                    + (IF Len(fp) = 1 THEN 10 * IntVal(fp) ELSE IntVal(fp))
    IN  IF ~ok THEN [ok |-> FALSE, v |-> 0]
        ELSE [ok |-> TRUE,
              v  |-> IF signed /\ CharAt(s, 1) = "-" THEN 0 - mag ELSE mag]

-----------------------------------------------------------------------------
(* parse_gprof_file *)

PyValue(py, items, exc) == [py |-> py, items |-> items, exc |-> exc]
NoneValue == PyValue("None", << >>, "")
ListValue(items) == PyValue("list", items, "")
Raised(exc) == PyValue("raise", << >>, exc)

\* the positions of "Flat profile:" in a line (tokens one space apart)
MarkerAt(line) ==
    { k \in 1..(Len(line.toks) - 1) :
        line.toks[k] = "Flat" /\ line.toks[k + 1] = "profile:" }

\* stripped.startswith("Call graph")
StartsCallGraph(line) ==
    /\ Len(line.toks) >= 2
    /\ line.toks[1] = "Call"
    /\ StartsWith(line.toks[2], "graph")

MarkerLines(content) == { n \in 1..Len(content) : MarkerAt(content[n]) # {} }

\* group(1).splitlines() of the regex of line 24: from the first marker to
\* the first later line that starts, unindented, with "Call graph", or to the end
SectionLines(content) ==
    LET m    == Min(MarkerLines(content))
        k    == Min(MarkerAt(content[m]))
        rest == [indent |-> TRUE,
                 toks |-> SubSeq(content[m].toks, k + 2, Len(content[m].toks))]
        ends == { e \in (m + 1)..Len(content) :
                    ~content[e].indent /\ StartsCallGraph(content[e]) }
        stop == IF ends = {} THEN Len(content) + 1 ELSE Min(ends)
    IN  << rest >> \o SubSeq(content, m + 1, stop - 1)

\* line 41: the header row
IsHeader(toks) ==
    StartsWith(toks[1], "%") \/ StartsWith(Lower(toks[1]), "time")

\* lines 50-52: "obvious non-data rows"
IsNonData(toks) ==
    \/ \E k \in 1..Len(toks) : Contains("name", Lower(toks[k]))
    \/ StartsWith(toks[1], "cumulative")
    \/ StartsWith(toks[1], "seconds")

\* a plausible slip: the except clause naming only IndexError
Caught_IndexErrorOnly(exc) == exc \in { "IndexError" }

\* line 76: except (ValueError, IndexError)
Caught(exc) == exc \in { "ValueError", "IndexError" }

\* a plausible slip: only time_percent tested
NegativeCost_PercentOnly(time_percent, self_seconds) == time_percent < 0

\* line 66: if time_percent < 0 or self_seconds < 0
NegativeCost(time_percent, self_seconds) == time_percent < 0 \/ self_seconds < 0

\* lines 59-75, the try block on the tokens of a row: [exc, keep, record];
\* `line` (the row's line number in the section) is a ghost field
TryRow(toks, n) ==
    LET f0 == Float(toks[1])
        f1 == Float(toks[2])
        f2 == Float(toks[3])
    IN  IF ~(f0.ok /\ f1.ok /\ f2.ok)
          THEN [exc |-> "ValueError", keep |-> FALSE, record |-> << >>]
        ELSE IF NegativeCost(f0.v, f2.v)
          THEN [exc |-> "", keep |-> FALSE, record |-> << >>]
        ELSE [exc |-> "", keep |-> TRUE,
              record |-> [ name |-> toks[Len(toks)],
                           time_percent |-> f0.v,
                           cumulative_seconds |-> f1.v,
                           self_seconds |-> f2.v,
                           calls |-> IF toks[4] # "null" THEN toks[4] ELSE "0",
                           line |-> n ]]

\* one iteration of the loop of lines 34-77 on line n of the section;
\* st = [header_found, stopped, functions, exc]
ScanLine(st, line, n) ==
    LET toks == line.toks
    IN  IF st.stopped \/ st.exc # "" THEN st
        ELSE IF toks = << >> THEN st
        ELSE IF ~st.header_found
          THEN [st EXCEPT !.header_found = IsHeader(toks)]
        ELSE IF StartsCallGraph(line) THEN [st EXCEPT !.stopped = TRUE]
        ELSE IF IsNonData(toks) THEN st
        ELSE IF Len(toks) < 5 THEN st
        ELSE LET t == TryRow(toks, n)
             IN  IF t.exc # ""
                   THEN IF Caught(t.exc) THEN st ELSE [st EXCEPT !.exc = t.exc]
                 ELSE IF t.keep
                   THEN [st EXCEPT !.functions = Append(@, t.record)]
                 ELSE st

RECURSIVE Scan(_, _)
\* the loop of lines 33-77 over the first n lines
Scan(lines, n) ==
    IF n = 0
      THEN [header_found |-> FALSE, stopped |-> FALSE, functions |-> << >>,
            exc |-> ""]
      ELSE ScanLine(Scan(lines, n - 1), lines[n], n)

\* a plausible slip: a record is put before the records of equal time_percent
InsertDesc_BeforeEqual(sorted, x) ==
    LET n == Cardinality({ k \in 1..Len(sorted) :
                             sorted[k].time_percent > x.time_percent })
    IN  SubSeq(sorted, 1, n) \o << x >> \o SubSeq(sorted, n + 1, Len(sorted))

\* x put after every record of greater or equal time_percent
InsertDesc(sorted, x) ==
    LET n == Cardinality({ k \in 1..Len(sorted) :
                             sorted[k].time_percent >= x.time_percent })
    IN  SubSeq(sorted, 1, n) \o << x >> \o SubSeq(sorted, n + 1, Len(sorted))

RECURSIVE SortedDesc(_)
\* sorted(functions, key=time_percent, reverse=True): stable, equal keys keep
\* their order
SortedDesc(s) ==
    IF s = << >> THEN << >>
    ELSE InsertDesc(SortedDesc(SubSeq(s, 1, Len(s) - 1)), s[Len(s)])

\* a plausible slip: the missing section reported as an empty list
NoFlatProfile_EmptyList == ListValue(<< >>)

\* lines 26-28: no flat-profile section
NoFlatProfile == NoneValue

parse_gprof_file(src) ==
    IF src.state = "missing" THEN NoneValue
    ELSE IF src.state = "unreadable" THEN Raised("OSError")
    ELSE IF MarkerLines(src.content) = {} THEN NoFlatProfile
    ELSE LET lines == SectionLines(src.content)
             final == Scan(lines, Len(lines))
         IN  IF final.exc # "" THEN Raised(final.exc)
             ELSE ListValue(SortedDesc(final.functions))

-----------------------------------------------------------------------------
(* analyze_hotspots and the rollup of main *)

\* `not functions`: None and the empty list are falsy
Falsy(value) == value.py = "None" \/ (value.py = "list" /\ value.items = << >>)

\* a plausible slip: the threshold made exclusive
Selected_Exclusive(f, th) == f.time_percent > th

\* line 85: the inclusive test
Selected(f, th) == f.time_percent >= th

analyze_hotspots(value, th) ==
    IF Falsy(value) THEN << >>
    ELSE SelectSeq(value.items, LAMBDA f : Selected(f, th))

\* threshold=1.0 (lines 81 and 237), in hundredths
DefaultThreshold == 100

\* a plausible slip: an empty hotspot list reported as fully parallel
Efficiency_EmptyIsFull(par, total) ==
    IF total > 0 THEN [num |-> par * 100, den |-> total]
    ELSE [num |-> 100, den |-> 1]

\* lines 268-271; the quotient is kept as the fraction num/den
Efficiency(par, total) ==
    IF total > 0 THEN [num |-> par * 100, den |-> total]
    ELSE [num |-> 0, den |-> 1]

\* lines 279 and 282, in hundredths
HighAbove == 5000
ModerateAbove == 2000

\* a plausible slip: the two bounds made inclusive
TierOf_InclusiveBounds(par) ==
    IF par >= HighAbove THEN "HIGH PARALLELIZATION POTENTIAL"
    ELSE IF par >= ModerateAbove THEN "MODERATE PARALLELIZATION POTENTIAL"
    ELSE "LIMITED PARALLELIZATION POTENTIAL"

\* lines 279-286
TierOf(par) ==
    IF par > HighAbove THEN "HIGH PARALLELIZATION POTENTIAL"
    ELSE IF par > ModerateAbove THEN "MODERATE PARALLELIZATION POTENTIAL"
    ELSE "LIMITED PARALLELIZATION POTENTIAL"

\* a plausible slip: everything but False counted (the unknown verdict too)
Truthy_NotFalse(par) == par # PyFalse

\* `if rec['parallelizable']`: only True is truthy
Truthy(par) == par = PyTrue

-----------------------------------------------------------------------------
(* The classifier on its own: one call on a name built from fragments *)

Fragments ==
    { "matrix_multiply", "MATRIX_MULTIPLY", "blocked_", "matrix_vector_multiply",
      "data_preprocessing", "data_postprocessing", "Data_PostProcessing",
      "vector_operations", "initialize_data", "calculate_checksum",
      "vector", "multiply", "matmul", "preprocess", "postprocess", "init", "sum",
      "foo_bar_baz", "_" }

RECURSIVE NamesOf(_)
NamesOf(n) ==
    IF n = 0 THEN { "" }
    ELSE NamesOf(n - 1) \cup { f \o s : f \in Fragments, s \in NamesOf(n - 1) }

Names == NamesOf(MaxFrags)

InitClassify ==
    /\ pc = "call"
    /\ function_name \in Names
    /\ rec = UnknownVerdict
    /\ source = [state |-> "missing", content |-> << >>]
    /\ functions = NoneValue
    /\ hotspots = << >>
    /\ threshold = DefaultThreshold
    /\ idx = 0
    /\ total_hotspot_time = 0
    /\ parallelizable_time = 0
    /\ efficiency = [num |-> 0, den |-> 1]
    /\ tier = ""

Classify ==
    /\ pc = "call"
    /\ rec' = generate_parallelization_recommendations(function_name)
    /\ pc' = "returned"
    /\ UNCHANGED << source, functions, hotspots, threshold, idx, total_hotspot_time,
                    parallelizable_time, efficiency, tier, function_name >>

NextClassify == Classify

SpecClassify == InitClassify /\ [][NextClassify]_vars

-----------------------------------------------------------------------------
(* The filter on its own: one call of analyze_hotspots *)

Rec(name, tp, n) ==
    [ name |-> name, time_percent |-> tp, cumulative_seconds |-> tp,
      self_seconds |-> tp, calls |-> "1", line |-> n ]

SomeRecords ==
    { Rec("matrix_multiply", 1250, 1), Rec("helper", 40, 2),
      Rec("vector_add", 100, 3), Rec("main", 0, 4) }

Thresholds == { 0, 40, DefaultThreshold, 1250, 10000 }

RECURSIVE SeqsUpTo(_, _)
\* the sequences over S of length at most n
SeqsUpTo(S, n) ==
    IF n = 0 THEN { << >> }
    ELSE SeqsUpTo(S, n - 1)
           \cup { Append(q, x) : q \in { r \in SeqsUpTo(S, n - 1) : Len(r) = n - 1 },
                                 x \in S }

InitAnalyze ==
    /\ pc = "call"
    /\ functions \in { NoneValue } \cup { ListValue(q) : q \in SeqsUpTo(SomeRecords, MaxRecs) }
    /\ threshold \in Thresholds
    /\ source = [state |-> "missing", content |-> << >>]
    /\ hotspots = << >>
    /\ idx = 0
    /\ total_hotspot_time = 0
    /\ parallelizable_time = 0
    /\ efficiency = [num |-> 0, den |-> 1]
    /\ tier = ""
    /\ function_name = ""
    /\ rec = UnknownVerdict

Analyze ==
    /\ pc = "call"
    /\ hotspots' = analyze_hotspots(functions, threshold)
    /\ pc' = "returned"
    /\ UNCHANGED << source, functions, threshold, idx, total_hotspot_time,
                    parallelizable_time, efficiency, tier, function_name, rec >>

NextAnalyze == Analyze

SpecAnalyze == InitAnalyze /\ [][NextAnalyze]_vars

-----------------------------------------------------------------------------
(* main on a report: the texts *)

Ln(indent, toks) == [indent |-> indent, toks |-> toks]

Marker == Ln(FALSE, << "Flat", "profile:" >>)
Intro == Ln(FALSE, << "Each", "sample", "counts", "as", "0.01", "seconds." >>)
Hdr1 == Ln(TRUE, << "%", "cumulative", "self", "self", "total" >>)
Hdr2 == Ln(TRUE, << "time", "seconds", "seconds", "calls", "ms/call", "ms/call", "name" >>)
HdrUpper == Ln(FALSE, << "Time", "seconds", "seconds", "calls", "function" >>)
Blank == Ln(FALSE, << >>)
CallGraphTop == Ln(FALSE, << "Call", "graph", "(explanation", "follows)" >>)
CallGraphIndented == Ln(TRUE, << "Call", "graph", "(explanation", "follows)" >>)

RowMatrix == Ln(TRUE, << "12.50", "1.20", "1.00", "500", "matrix_multiply" >>)
RowHelper == Ln(TRUE, << "0.40", "1.21", "0.01", "10", "helper" >>)
RowPost == Ln(TRUE, << "12.50", "2.20", "1.00", "7", "data_postprocessing" >>)
RowVector == Ln(TRUE, << "1.00", "2.21", "0.01", "null", "vector_add" >>)
RowGetName == Ln(TRUE, << "80.00", "3.00", "0.80", "3", "get_name" >>)
RowNegCumulative == Ln(TRUE, << "5.00", "-1.00", "0.05", "2", "foo_bar_baz" >>)
RowNegPercent == Ln(TRUE, << "-5.00", "1.00", "0.05", "2", "init_array" >>)
RowNegSelf == Ln(TRUE, << "5.00", "1.00", "-0.05", "2", "checksum" >>)
RowNotNumeric == Ln(TRUE, << "abc", "1.00", "0.05", "2", "foo" >>)
RowShort == Ln(TRUE, << "0.99", "3.00", "0.00", "main" >>)
RowSeven == Ln(TRUE, << "20.00", "0.50", "0.20", "100", "2.00", "5.00", "matrix_vector_multiply" >>)
RowFifty == Ln(TRUE, << "50.00", "4.00", "2.00", "n/a", "Matrix_Vector_Multiply" >>)

\* the lines a table body is drawn from
TableLines ==
    { CallGraphIndented, RowMatrix, RowHelper, RowPost, RowVector, RowGetName,
      RowNegCumulative, RowNegPercent, RowNegSelf, RowNotNumeric, RowShort,
      RowSeven, RowFifty }

\* what comes before and after the table body of a report
Layouts ==
    { [pre |-> << Marker, Intro, Blank, Hdr1, Hdr2 >>, post |-> << >>],
      [pre |-> << Intro, Marker, HdrUpper >>, post |-> << CallGraphTop, RowSeven >>] }

\* texts without the marker, and with the marker but without a header row
BareOpenings == { << Intro >>, << Marker >> }

Texts ==
    { lay.pre \o body \o lay.post :
        lay \in Layouts, body \in SeqsUpTo(TableLines, MaxRows) }
      \cup { pre \o body : pre \in BareOpenings, body \in SeqsUpTo(TableLines, 1) }

Sources ==
    { [state |-> "missing", content |-> << >>],
      [state |-> "unreadable", content |-> << >>] }
      \cup { [state |-> "readable", content |-> t] : t \in Texts }

Init ==
    /\ pc = "start"
    /\ source \in Sources
    /\ functions = NoneValue
    /\ hotspots = << >>
    /\ threshold = DefaultThreshold
    /\ idx = 0
    /\ total_hotspot_time = 0
    /\ parallelizable_time = 0
    /\ efficiency = [num |-> 0, den |-> 1]
    /\ tier = ""
    /\ function_name = ""
    /\ rec = UnknownVerdict

\* lines 232-235: the call of parse_gprof_file and the test of its result
Main_Parse ==
    /\ pc = "start"
    /\ functions' = parse_gprof_file(source)
    /\ pc' = IF functions'.py = "raise" THEN "raised"
             ELSE IF Falsy(functions') THEN "nodata"
             ELSE "parsed"
    /\ UNCHANGED << source, hotspots, threshold, idx, total_hotspot_time,
                    parallelizable_time, efficiency, tier, function_name, rec >>

\* lines 237-243
Main_Analyze ==
    /\ pc = "parsed"
    /\ hotspots' = analyze_hotspots(functions, DefaultThreshold)
    /\ total_hotspot_time' = 0
    /\ parallelizable_time' = 0
    /\ idx' = 0
    /\ pc' = "loop"
    /\ UNCHANGED << source, functions, threshold, efficiency, tier,
                    function_name, rec >>

\* lines 245-264: one iteration of the for loop
Main_Hotspot ==
    /\ pc = "loop"
    /\ idx < Len(hotspots)
    /\ LET hotspot == hotspots[idx + 1]
           r == generate_parallelization_recommendations(hotspot.name)
       IN  /\ function_name' = hotspot.name
           /\ rec' = r
           /\ total_hotspot_time' = total_hotspot_time + hotspot.time_percent
           /\ parallelizable_time' =
                 IF Truthy(r.parallelizable)
                   THEN parallelizable_time + hotspot.time_percent
                   ELSE parallelizable_time
    /\ idx' = idx + 1
    /\ UNCHANGED << pc, source, functions, hotspots, threshold, efficiency, tier >>

\* lines 266-286: the summary after the loop
Main_Summary ==
    /\ pc = "loop"
    /\ idx = Len(hotspots)
    /\ efficiency' = Efficiency(parallelizable_time, total_hotspot_time)
    /\ tier' = TierOf(parallelizable_time)
    /\ pc' = "done"
    /\ UNCHANGED << source, functions, hotspots, threshold, idx,
                    total_hotspot_time, parallelizable_time, function_name, rec >>

Next == Main_Parse \/ Main_Analyze \/ Main_Hotspot \/ Main_Summary

Spec == Init /\ [][Next]_vars

-----------------------------------------------------------------------------
(* Claims about parse_gprof_file and main, checked under Spec *)

\* parse_gprof_file has just returned (main does not assign functions again)
Parsed == pc \in { "parsed", "nodata", "raised" }

Readable == source.state = "readable"

HasMarker == Readable /\ MarkerLines(source.content) # {}

\* the lines of the flat-profile section of the text
Section == SectionLines(source.content)

Items == functions.items

\* the line numbers of the records returned
RecordLines == { Items[k].line : k \in 1..Len(Items) }

\* the header row: the first non-blank line of the section that starts with "%"
\* or "time"
HeaderLines(lines) ==
    { n \in 1..Len(lines) : lines[n].toks # << >> /\ IsHeader(lines[n].toks) }

\* the table body: the lines after the header row, up to a line that starts
\* with "Call graph"
Body(lines) ==
    IF HeaderLines(lines) = {} THEN {}
    ELSE LET h    == Min(HeaderLines(lines))
             ends == { n \in (h + 1)..Len(lines) : StartsCallGraph(lines[n]) }
             stop == IF ends = {} THEN Len(lines) + 1 ELSE Min(ends)
         IN  (h + 1)..(stop - 1)

Numeric(tok) == Float(tok).ok

\* a well-formed data row in the words of C1: at least 5 tokens, the first
\* three numeric and non-negative (the last token is the function name)
WellFormed(line) ==
    /\ Len(line.toks) >= 5
    /\ \A k \in 1..3 : Numeric(line.toks[k]) /\ Float(line.toks[k]).v >= 0

\* C1 as stated, read in the code's favour (rows of the table body only): the
\* records returned are exactly the well-formed rows, one record per row, each
\* with the three numeric fields of its row.
C1_ExactlyTheWellFormedRows ==
    (Parsed /\ HasMarker) =>
        /\ functions.py = "list"
        /\ Len(Items) = Cardinality({ n \in Body(Section) : WellFormed(Section[n]) })
        /\ RecordLines = { n \in Body(Section) : WellFormed(Section[n]) }
        /\ \A k \in 1..Len(Items) :
              LET toks == Section[Items[k].line].toks
              IN  /\ Items[k].time_percent = Float(toks[1]).v
                  /\ Items[k].cumulative_seconds = Float(toks[2]).v
                  /\ Items[k].self_seconds = Float(toks[3]).v

C3_NoMarkerIsNoneNotEmptyList ==
    (Parsed /\ Readable) =>
        /\ ~HasMarker => functions = NoneValue
        /\ HasMarker => functions.py = "list"
        /\ (HasMarker /\ Items = << >>) => functions # NoneValue

C3_Witness ==
    /\ pc = "nodata"
    /\ Readable /\ ~HasMarker
    /\ Len(source.content) > 1
    /\ functions = NoneValue

\* the three situations of C4
Situation(src) ==
    IF src.state # "readable" THEN "source-unavailable"
    ELSE IF MarkerLines(src.content) = {} THEN "structural-absence"
    ELSE IF parse_gprof_file(src) = ListValue(<< >>) THEN "zero-valid-rows"
    ELSE "data"

\* one source of each situation
ReferenceSources ==
    { [state |-> "missing", content |-> << >>],
      [state |-> "readable", content |-> << Intro >>],
      [state |-> "readable", content |-> << Marker, Hdr1, Hdr2 >>] }

\* C4 as stated: the value returned for a source differs from the value
\* returned for any source of another of the three situations, and main does
\* not take the "no data" branch for a missing file.
C4_ThreeOutcomesDistinct ==
    Parsed =>
        /\ \A r \in ReferenceSources :
              Situation(r) # Situation(source) => parse_gprof_file(r) # functions
        /\ source.state = "missing" => pc # "nodata"

\* the noise of C5: blank lines, header fragments, rows under 5 tokens, rows
\* whose first three tokens are not numeric, rows of negative time_percent or
\* self_seconds
Noise(line) ==
    \/ line.toks = << >>
    \/ IsNonData(line.toks)
    \/ Len(line.toks) < 5
    \/ \E k \in 1..3 : ~Numeric(line.toks[k])
    \/ Float(line.toks[1]).v < 0
    \/ Float(line.toks[3]).v < 0

\* C5: no content of the section makes parse_gprof_file raise; a noise line
\* gives no record, and every row of the table body that is not noise gives
\* one, whatever noise precedes it.
C5_NoiseSkippedScanContinues ==
    (Parsed /\ Readable) =>
        /\ functions.py # "raise"
        /\ HasMarker =>
              /\ \A n \in Body(Section) : ~Noise(Section[n]) => n \in RecordLines
              /\ \A n \in 1..Len(Section) : Noise(Section[n]) => n \notin RecordLines

\* a row extracted right after a row that float() rejects and a short row
C5_Witness ==
    /\ Parsed /\ HasMarker
    /\ \E n \in Body(Section) :
          /\ n - 2 \in Body(Section)
          /\ Section[n - 2] = RowNotNumeric
          /\ Section[n - 1] = RowShort
          /\ n \in RecordLines

EffInRange == 0 <= efficiency.num /\ efficiency.num <= 100 * efficiency.den

-----------------------------------------------------------------------------
(* Claim about analyze_hotspots, checked under SpecAnalyze *)

InputItems == IF functions.py = "list" THEN functions.items ELSE << >>

Kept == { k \in 1..Len(InputItems) : InputItems[k].time_percent >= threshold }

\* the position in the input of the j-th record kept
KeptAt(j) == CHOOSE k \in Kept : Cardinality({ m \in Kept : m <= k }) = j

-----------------------------------------------------------------------------
(* Claims about the classifier, checked under SpecClassify *)

HeuristicWords ==
    { "multiply", "matmul", "vector", "preprocess", "postprocess", "init", "sum" }

NoCatalogueKey(name) ==
    \A k \in 1..Len(CatalogueKeys) : ~Contains(CatalogueKeys[k], Lower(name))

NoHeuristicWord(name) ==
    \A w \in HeuristicWords : ~Contains(w, Lower(name))

VerdictFields ==
    { "parallelizable", "complexity", "pattern", "platforms", "strategy",
      "justification" }

\* C8: every call returns a complete verdict, and a name that contains no
\* catalogue key and none of the heuristic words gets the unknown verdict:
\* parallelizable None, complexity "Unknown", pattern "Requires manual
\* analysis", platforms ["Manual analysis needed"], strategy "Profile function
\* behavior and analyze dependencies", and a justification.
C8_UnmatchedIsUnknown ==
    pc = "returned" =>
        /\ DOMAIN rec = VerdictFields
        /\ rec.parallelizable \in { PyTrue, PyFalse, PyNone }
        /\ (NoCatalogueKey(function_name) /\ NoHeuristicWord(function_name)) =>
              /\ rec.parallelizable = PyNone
              /\ rec.complexity = "Unknown"
              /\ rec.pattern = "Requires manual analysis"
              /\ rec.platforms = << "Manual analysis needed" >>
              /\ rec.strategy = "Profile function behavior and analyze dependencies"
              /\ rec.justification # ""

C8_Witness ==
    /\ pc = "returned"
    /\ function_name = "foo_bar_baz_"
    /\ rec.parallelizable = PyNone

\* C9 as stated: every name that contains "data_postprocessing" (in any letter
\* case) gets parallelizable = False.
C9_Original ==
    (pc = "returned" /\ Contains("data_postprocessing", Lower(function_name)))
        => rec.parallelizable = PyFalse

\* the catalogue keys that come before `key` in the dict
KeysBefore(key) ==
    { CatalogueKeys[k] : k \in { j \in 1..Len(CatalogueKeys) :
          \E m \in (j + 1)..Len(CatalogueKeys) : CatalogueKeys[m] = key } }

\* C9 as amended: a name that contains "data_postprocessing" (in any letter
\* case) and none of the catalogue keys that come before it in the dict
\* (matrix_multiply, blocked_matrix_multiply, matrix_vector_multiply,
\* data_preprocessing) gets parallelizable = False.
C9_PostprocessingUnlessEarlierKey ==
    ( /\ pc = "returned"
      /\ Contains("data_postprocessing", Lower(function_name))
      /\ \A key \in KeysBefore("data_postprocessing") :
             ~Contains(key, Lower(function_name)) )
        => rec.parallelizable = PyFalse

C9_Witness ==
    /\ pc = "returned"
    /\ function_name = "Data_PostProcessingvector_operations"
    /\ rec.parallelizable = PyFalse

\* C10: every name that contains "matrix_multiply" (in any letter case),
\* whatever else it contains, gets parallelizable = True and complexity O(n^3).
C10_MatrixMultiply ==
    (pc = "returned" /\ Contains("matrix_multiply", Lower(function_name)))
        => /\ rec.parallelizable = PyTrue
           /\ rec.complexity = "O(n^3)"

C10_Witness ==
    /\ pc = "returned"
    /\ function_name = "MATRIX_MULTIPLYdata_postprocessing"
    /\ rec.parallelizable = PyTrue
    /\ rec.complexity = "O(n^3)"

\* C11 as stated: a function name equal to one of the eight catalogue keys gets
\* that key's own verdict (pattern, platforms, strategy and justification
\* included), so that every entry of the catalogue can be returned.
C11_EveryKeyGetsItsOwnVerdict ==
    (pc = "returned" /\ \E k \in 1..Len(CatalogueKeys) : function_name = CatalogueKeys[k])
        => rec = recommendations(function_name)

\* C12 as stated: a name that contains no catalogue key and contains both
\* "vector" and "multiply" (in any letter case) gets the verdict of the
\* matrix_vector_multiply archetype.
C12_VectorAndMultiply ==
    ( /\ pc = "returned"
      /\ NoCatalogueKey(function_name)
      /\ Contains("vector", Lower(function_name))
      /\ Contains("multiply", Lower(function_name)) )
        => rec = recommendations("matrix_vector_multiply")

-----------------------------------------------------------------------------
(* Claims about the rollup of main, checked under Spec *)

InLoop == pc \in { "loop", "done" }

RECURSIVE SumPercent(_, _)
\* the sum of time_percent over the first k records of seq
SumPercent(seq, k) ==
    IF k = 0 THEN 0 ELSE SumPercent(seq, k - 1) + seq[k].time_percent

\* the function names that occur in the texts, and their lower-cased forms
RowNames == { ln.toks[Len(ln.toks)] : ln \in { l \in TableLines : l.toks # << >> } }

LowerName == [ n \in RowNames |-> Lower(n) ]

\* the verdict of each of these names
VerdictOf ==
    [ n \in RowNames \cup { LowerName[m] : m \in RowNames } |->
        generate_parallelization_recommendations(n) ]

\* the hotspots among the first k whose verdict is parallelizable = True
ParallelAmong(k) ==
    SelectSeq(SubSeq(hotspots, 1, k),
              LAMBDA h : VerdictOf[h.name].parallelizable = PyTrue)

\* C13: after each hotspot processed, total_hotspot_time is the sum of
\* time_percent of the hotspots processed so far and parallelizable_time the
\* sum over those of them whose verdict is parallelizable = True (False and
\* None add nothing), so 0 <= parallelizable_time <= total_hotspot_time; at
\* the end all hotspots have been processed.
C13_RollupSums ==
    InLoop =>
        /\ total_hotspot_time = SumPercent(hotspots, idx)
        /\ LET par == ParallelAmong(idx)
           IN  parallelizable_time = SumPercent(par, Len(par))
        /\ 0 <= parallelizable_time
        /\ parallelizable_time <= total_hotspot_time
        /\ pc = "done" => idx = Len(hotspots)

\* a run whose hotspots had the verdicts True, False and None
C13_Witness ==
    /\ pc = "done"
    /\ Len(hotspots) = 3
    /\ \A v \in { PyTrue, PyFalse, PyNone } :
          \E k \in 1..3 : VerdictOf[hotspots[k].name].parallelizable = v
    /\ 0 < parallelizable_time
    /\ parallelizable_time < total_hotspot_time

\* the three labels main can print (high, moderate, limited potential)
TierLabels ==
    { "HIGH PARALLELIZATION POTENTIAL", "MODERATE PARALLELIZATION POTENTIAL",
      "LIMITED PARALLELIZATION POTENTIAL" }

\* C14: the label depends on parallelizable_time alone: above 50 "high", above
\* 20 and at most 50 "moderate", otherwise "limited" (50 itself is moderate,
\* 20 itself is limited); one label is printed per run, at the summary.
C14_TierStrictBounds ==
    /\ pc = "done" =>
          /\ tier \in TierLabels
          /\ tier = "HIGH PARALLELIZATION POTENTIAL" <=> parallelizable_time > 5000
          /\ tier = "MODERATE PARALLELIZATION POTENTIAL"
                <=> (parallelizable_time > 2000 /\ parallelizable_time <= 5000)
          /\ tier = "LIMITED PARALLELIZATION POTENTIAL" <=> parallelizable_time <= 2000
    /\ pc # "done" => tier = ""

\* a run that ends with parallelizable_time exactly 50 and the moderate label
C14_Witness ==
    /\ pc = "done"
    /\ parallelizable_time = 5000
    /\ total_hotspot_time > 5000
    /\ tier = "MODERATE PARALLELIZATION POTENTIAL"

-----------------------------------------------------------------------------
(* Claims about the fields of the records, checked under Spec *)

\* a row that float() accepts and whose time_percent or self_seconds is negative
NegativeRow(line) ==
    /\ Len(line.toks) >= 5
    /\ \A k \in 1..3 : Numeric(line.toks[k])
    /\ (Float(line.toks[1]).v < 0 \/ Float(line.toks[3]).v < 0)

NumericCount(tok) == tok # "" /\ AllDigits(tok)

\* C16 as stated: the calls field of a record is the call-count token of its
\* row when that token is numeric, and the sentinel "0" when it is not.
C16_CallsSentinel ==
    (Parsed /\ functions.py = "list") =>
        \A k \in 1..Len(Items) :
            LET tok == Section[Items[k].line].toks[4]
            IN  Items[k].calls = IF NumericCount(tok) THEN tok ELSE "0"

-----------------------------------------------------------------------------
(* Claim about what the verdict depends on, checked under Spec *)

\* C17: the verdict main obtains for a hotspot is the verdict of its
\* lower-cased name: it is the same for names that differ only in letter
\* case, and the same whatever the record's time_percent, cumulative_seconds,
\* self_seconds and calls and whatever the other records of the list.
C17_VerdictOfLowerCasedNameOnly ==
    (InLoop /\ idx > 0) =>
        /\ function_name = hotspots[idx].name
        /\ rec = VerdictOf[LowerName[function_name]]
        /\ \A k \in 1..Len(hotspots) :
              LowerName[hotspots[k].name] = LowerName[function_name] =>
                  VerdictOf[hotspots[k].name] = rec

\* two hotspots whose names differ only in letter case, with different
\* numbers, and the verdict of the first
C17_Witness ==
    /\ pc = "loop" /\ idx = 1 /\ Len(hotspots) >= 2
    /\ function_name = "Matrix_Vector_Multiply"
    /\ hotspots[2].name = "matrix_vector_multiply"
    /\ hotspots[2].time_percent # hotspots[1].time_percent
    /\ hotspots[2].calls # hotspots[1].calls
    /\ rec = recommendations("matrix_vector_multiply")

====
